---- MODULE Spec2Model ----
(***************************************************************************)
(* Replay buffers (common/buffer.py) and the training driver (sac/main.py) *)
(* of Soft-Actor-Critic, as state machines.                                *)
(*                                                                         *)
(*   Spec         ReplayBuffer: writer processes running push / extend     *)
(*                under the lock.                                          *)
(*   SpecSample   the same, with the trainer running sample without it.    *)
(*   SpecTraj     TrajectoryReplayBuffer: pushes of trajectories.          *)
(*   SpecTSample  TrajectoryReplayBuffer.sample on a buffer at rest.       *)
(*   SpecTConc    TrajectoryReplayBuffer.sample while a sampler pushes.    *)
(*   SpecTrain    train and train_loop of sac/main.py with the samplers.   *)
(***************************************************************************)
EXTENDS Integers, Sequences, FiniteSets, TLC

(* ---- bounds of the model ---- *)
NumWriters == 2
MaxCap == 3
MaxItems == 4
MaxExtend == 2
MaxBatch == 2
MaxItemsSample == 2
MaxTCap == 10
MaxTLen == 5
MaxTPushes == 4
MaxSlots == 2
MaxSBatch == 2
MaxStep == 3
NumSamplers == 2
MaxEpochs == 1
MaxUpdates == 2
MaxSteps == 3
MaxCCap == 4
MaxCLen == 3
MaxCPushes == 3

(* np.inf, the capacity of a buffer built with capacity=None (or 0) *)
Inf == -1

VARIABLES
    capacity,   \* ReplayBuffer.capacity
    buffer,     \* ReplayBuffer.buffer: the slots, slot i of the code is buffer[i+1]
    offset,     \* ReplayBuffer.buffer_offset (shared Value)
    lock,       \* ReplayBuffer.lock: 0 when free, else the writer holding it
    wpc,        \* per writer: position inside push / extend
    witems,     \* per writer: the item(s) of the call in progress
    wk,         \* per writer: how many items of the call have been handled
    wbr,        \* per writer: outcome of the test `self.size < self.capacity`
    wtmp,       \* per writer: value of self.offset read by an augmented assignment
    wsnap,      \* history: <<buffer, offset>> when the writer acquired the lock
    pushed,     \* history: the items in the order their slot was written
    nitems,     \* number of items created so far
    rpc,        \* reader: position inside sample
    rsize,      \* reader: self.size as read by sample
    ridx,       \* reader: the indices np.random.randint returned
    rbatch,     \* reader: the items read so far
    rheld,      \* history: writer that has held the lock since sample began (0: none)
    budget,     \* number of items the writers of this run create
    t_capacity, \* TrajectoryReplayBuffer.capacity
    t_buffer,   \* TrajectoryReplayBuffer.buffer: one trajectory per slot
    t_lengths,  \* TrajectoryReplayBuffer.lengths
    t_offset,   \* TrajectoryReplayBuffer.buffer_offset
    t_hist,     \* history: the lengths of the trajectories pushed, in call order
    t_last,     \* history: how the last push ended
    t_mid,      \* push between its write of buffer and its write of lengths
    s_pc,       \* TrajectoryReplayBuffer.sample: position
    s_batch,    \* sample: batch_size
    s_step,     \* sample: step_size
    s_weights,  \* sample: lengths as copied at entry (weights = lengths / sum)
    s_out,      \* sample: the accepted draws, <<slot index, start offset>> each
    s_win,      \* sample: batch and hiddens, one window per accepted draw
    m_pc,       \* train / train_loop: position
    m_exc,      \* the exception in flight ("none" when there is none)
    m_outcome,  \* history: how train_loop ended
    m_nepochs,  \* config.n_epochs - config.initial_epoch
    m_nupdates, \* config.n_updates
    m_epoch,    \* epochs begun
    m_i,        \* i of the update loop
    m_total,    \* model.collector.n_total_steps
    m_initial,  \* n_initial_samples
    m_updates,  \* history: calls of model.update that returned
    m_signals,  \* history: the pause / resume calls made on the collector
    m_due,      \* history: the signal the ratio test selects for each update done
    m_alive,    \* per sampler: the process is alive
    m_seen,     \* per sampler: what sampler.is_alive() returned in the teardown
    m_term,     \* per sampler: sampler.terminate() was called
    m_joined,   \* per sampler: sampler.join() returned
    m_k         \* teardown: samplers handled so far

fvars == <<capacity, buffer, offset, lock, wpc, witems, wk, wbr, wtmp, wsnap,
           pushed, nitems, rpc, rsize, ridx, rbatch, rheld, budget>>

tvars == <<t_capacity, t_buffer, t_lengths, t_offset, t_hist, t_last, t_mid>>

svars == <<s_pc, s_batch, s_step, s_weights, s_out, s_win>>

mvars == <<m_pc, m_exc, m_outcome, m_nepochs, m_nupdates, m_epoch, m_i, m_total,
           m_initial, m_updates, m_signals, m_due, m_alive, m_seen, m_term, m_joined, m_k>>

vars == <<fvars, tvars, svars, mvars>>

Writers == 1..NumWriters

(* no call in progress: nothing recorded *)
NoSnap == <<<<>>, 0>>

(* An item is tuple(args): here two fields, both tagged with the number of *)
(* the call that built the tuple.                                          *)
Item(n) == <<n, n>>

(* ReplayBuffer.__init__: capacity or np.inf *)
Capacity(arg) == IF arg = 0 THEN Inf ELSE arg

(* ReplayBuffer.size: len(self.buffer) *)
Size(buf) == Len(buf)

(* mutant of Below: the test written `<=` *)
BelowOrEqual(a, cap) == cap = Inf \/ a <= cap

(* a < capacity, with capacity possibly np.inf *)
Below(a, cap) == cap = Inf \/ a < cap

(* self.buffer[i] = item on a list (IndexError is decided by the caller) *)
SetSlot(buf, i, item) == [buf EXCEPT ![i + 1] = item]

(* positions at which a writer holds the lock *)
PushCritical == {"push_test", "push_write", "push_incget", "push_incset",
                 "push_modget", "push_modset", "push_release"}
ExtendCritical == {"ext_loop", "ext_test", "ext_write", "ext_incget", "ext_incset",
                   "ext_modget", "ext_modset", "ext_next", "ext_release"}
Critical == PushCritical \cup ExtendCritical

(* ------------------------------------------------------------------ *)
(* The steps of the body shared, line for line, by push and extend.   *)
(* ------------------------------------------------------------------ *)

(* mutant of Acquire: the block entered without waiting for the lock *)
AcquireNoWait(w, from, to) ==
    /\ wpc[w] = from
    /\ lock' = w
    /\ wpc' = [wpc EXCEPT ![w] = to]
    /\ wk' = [wk EXCEPT ![w] = 0]
    /\ wsnap' = [wsnap EXCEPT ![w] = <<buffer, offset>>]
    /\ UNCHANGED <<capacity, buffer, offset, witems, wbr, wtmp, pushed, nitems,
                   rpc, rsize, ridx, rbatch, rheld, budget, tvars, svars, mvars>>

(* with self.lock: (entering) *)
Acquire(w, from, to) ==
    /\ wpc[w] = from
    /\ lock = 0
    /\ lock' = w
    /\ wpc' = [wpc EXCEPT ![w] = to]
    /\ wk' = [wk EXCEPT ![w] = 0]
    /\ wsnap' = [wsnap EXCEPT ![w] = <<buffer, offset>>]
    /\ UNCHANGED <<capacity, buffer, offset, witems, wbr, wtmp, pushed, nitems,
                   rpc, rsize, ridx, rbatch, rheld, budget, tvars, svars, mvars>>

(* with self.lock: (leaving, normally or by an exception) *)
Release(w, from) ==
    /\ wpc[w] = from
    /\ lock' = 0
    /\ wpc' = [wpc EXCEPT ![w] = "idle"]
    /\ witems' = [witems EXCEPT ![w] = <<>>]
    /\ wk' = [wk EXCEPT ![w] = 0]
    /\ wbr' = [wbr EXCEPT ![w] = FALSE]
    /\ wtmp' = [wtmp EXCEPT ![w] = 0]
    /\ wsnap' = [wsnap EXCEPT ![w] = NoSnap]
    /\ rheld' = 0
    /\ UNCHANGED <<capacity, buffer, offset, pushed, nitems,
                   rpc, rsize, ridx, rbatch, budget, tvars, svars, mvars>>

(* if self.size < self.capacity: *)
TestStep(w, from, to) ==
    /\ wpc[w] = from
    /\ wbr' = [wbr EXCEPT ![w] = Below(Size(buffer), capacity)]
    /\ wpc' = [wpc EXCEPT ![w] = to]
    /\ UNCHANGED <<capacity, buffer, offset, lock, witems, wk, wtmp, wsnap, pushed,
                   nitems, rpc, rsize, ridx, rbatch, rheld, budget, tvars, svars, mvars>>

(* self.buffer.append(item)  /  self.buffer[self.offset] = item *)
WriteStep(w, from, to) ==
    LET item == witems[w][wk[w] + 1] IN
    /\ wpc[w] = from
    /\ IF wbr[w]
         THEN /\ buffer' = Append(buffer, item)
              /\ pushed' = Append(pushed, item)
              /\ wpc' = [wpc EXCEPT ![w] = to]
              /\ UNCHANGED <<lock, witems, wk, wsnap, rheld>>
         ELSE IF offset < Len(buffer)
           THEN /\ buffer' = SetSlot(buffer, offset, item)
                /\ pushed' = Append(pushed, item)
                /\ wpc' = [wpc EXCEPT ![w] = to]
                /\ UNCHANGED <<lock, witems, wk, wsnap, rheld>>
           ELSE \* IndexError: list assignment index out of range; the
                \* exception leaves the with block, which releases the lock
                /\ UNCHANGED <<buffer, pushed>>
                /\ lock' = 0
                /\ wpc' = [wpc EXCEPT ![w] = "idle"]
                /\ witems' = [witems EXCEPT ![w] = <<>>]
                /\ wk' = [wk EXCEPT ![w] = 0]
                /\ wsnap' = [wsnap EXCEPT ![w] = NoSnap]
                /\ rheld' = 0
    /\ UNCHANGED <<capacity, offset, wbr, wtmp,
                   nitems, rpc, rsize, ridx, rbatch, budget, tvars, svars, mvars>>

(* self.offset += 1, the read *)
IncGet(w, from, to) ==
    /\ wpc[w] = from
    /\ wtmp' = [wtmp EXCEPT ![w] = offset]
    /\ wpc' = [wpc EXCEPT ![w] = to]
    /\ UNCHANGED <<capacity, buffer, offset, lock, witems, wk, wbr, wsnap, pushed,
                   nitems, rpc, rsize, ridx, rbatch, rheld, budget, tvars, svars, mvars>>

(* self.offset += 1, the write; then `if not np.isinf(self.capacity)` *)
IncSet(w, from, tomod, toend) ==
    /\ wpc[w] = from
    /\ offset' = wtmp[w] + 1
    /\ wpc' = [wpc EXCEPT ![w] = IF capacity # Inf THEN tomod ELSE toend]
    /\ UNCHANGED <<capacity, buffer, lock, witems, wk, wbr, wtmp, wsnap, pushed,
                   nitems, rpc, rsize, ridx, rbatch, rheld, budget, tvars, svars, mvars>>

(* self.offset %= self.capacity, the read *)
ModGet(w, from, to) ==
    /\ wpc[w] = from
    /\ wtmp' = [wtmp EXCEPT ![w] = offset]
    /\ wpc' = [wpc EXCEPT ![w] = to]
    /\ UNCHANGED <<capacity, buffer, offset, lock, witems, wk, wbr, wsnap, pushed,
                   nitems, rpc, rsize, ridx, rbatch, rheld, budget, tvars, svars, mvars>>

(* mutant of ModSet: the offset written back without the modulo *)
ModSetNoWrap(w, from, to) ==
    /\ wpc[w] = from
    /\ offset' = wtmp[w]
    /\ wpc' = [wpc EXCEPT ![w] = to]
    /\ UNCHANGED <<capacity, buffer, lock, witems, wk, wbr, wtmp, wsnap, pushed,
                   nitems, rpc, rsize, ridx, rbatch, rheld, budget, tvars, svars, mvars>>

(* self.offset %= self.capacity, the write *)
ModSet(w, from, to) ==
    /\ wpc[w] = from
    /\ offset' = wtmp[w] % capacity
    /\ wpc' = [wpc EXCEPT ![w] = to]
    /\ UNCHANGED <<capacity, buffer, lock, witems, wk, wbr, wtmp, wsnap, pushed,
                   nitems, rpc, rsize, ridx, rbatch, rheld, budget, tvars, svars, mvars>>

(* ------------------------------------------------------------------ *)
(* ReplayBuffer.push                                                   *)
(* ------------------------------------------------------------------ *)

(* item = tuple(args) *)
PushCall(w) ==
    /\ wpc[w] = "idle"
    /\ nitems < budget
    /\ nitems' = nitems + 1
    /\ witems' = [witems EXCEPT ![w] = <<Item(nitems + 1)>>]
    /\ wpc' = [wpc EXCEPT ![w] = "push_lock"]
    /\ UNCHANGED <<capacity, buffer, offset, lock, wk, wbr, wtmp, wsnap, pushed,
                   rpc, rsize, ridx, rbatch, rheld, budget, tvars, svars, mvars>>

PushAcquire(w) == Acquire(w, "push_lock", "push_test")
PushTest(w) == TestStep(w, "push_test", "push_write")
PushWrite(w) == WriteStep(w, "push_write", "push_incget")
PushIncGet(w) == IncGet(w, "push_incget", "push_incset")
PushIncSet(w) == IncSet(w, "push_incset", "push_modget", "push_release")
PushModGet(w) == ModGet(w, "push_modget", "push_modset")
PushModSet(w) == ModSet(w, "push_modset", "push_release")
PushRelease(w) == Release(w, "push_release")

(* ------------------------------------------------------------------ *)
(* ReplayBuffer.extend                                                 *)
(* ------------------------------------------------------------------ *)

(* extend(trajectory): the caller's batch, any length, possibly empty *)
ExtendCall(w) ==
    /\ wpc[w] = "idle"
    /\ \E n \in 0..MaxExtend :
          /\ nitems + n <= budget
          /\ nitems' = nitems + n
          /\ witems' = [witems EXCEPT ![w] = [j \in 1..n |-> Item(nitems + j)]]
    /\ wpc' = [wpc EXCEPT ![w] = "ext_lock"]
    /\ UNCHANGED <<capacity, buffer, offset, lock, wk, wbr, wtmp, wsnap, pushed,
                   rpc, rsize, ridx, rbatch, rheld, budget, tvars, svars, mvars>>

ExtendAcquire(w) == Acquire(w, "ext_lock", "ext_loop")

(* for items in map(tuple, trajectory): *)
ExtendLoop(w) ==
    /\ wpc[w] = "ext_loop"
    /\ wpc' = [wpc EXCEPT ![w] = IF wk[w] < Len(witems[w]) THEN "ext_test"
                                                            ELSE "ext_release"]
    /\ UNCHANGED <<capacity, buffer, offset, lock, witems, wk, wbr, wtmp, wsnap,
                   pushed, nitems, rpc, rsize, ridx, rbatch, rheld, budget, tvars, svars, mvars>>

(* mutant of ExtendNext: the lock given up after every item *)
ExtendNextUnlock(w) ==
    /\ wpc[w] = "ext_next"
    /\ wk' = [wk EXCEPT ![w] = wk[w] + 1]
    /\ wpc' = [wpc EXCEPT ![w] = "ext_loop"]
    /\ lock' = 0
    /\ UNCHANGED <<capacity, buffer, offset, witems, wbr, wtmp, wsnap,
                   pushed, nitems, rpc, rsize, ridx, rbatch, rheld, budget, tvars, svars, mvars>>

(* the end of one pass through the loop body *)
ExtendNext(w) ==
    /\ wpc[w] = "ext_next"
    /\ wk' = [wk EXCEPT ![w] = wk[w] + 1]
    /\ wpc' = [wpc EXCEPT ![w] = "ext_loop"]
    /\ UNCHANGED <<capacity, buffer, offset, lock, witems, wbr, wtmp, wsnap,
                   pushed, nitems, rpc, rsize, ridx, rbatch, rheld, budget, tvars, svars, mvars>>

ExtendTest(w) == TestStep(w, "ext_test", "ext_write")
ExtendWrite(w) == WriteStep(w, "ext_write", "ext_incget")
ExtendIncGet(w) == IncGet(w, "ext_incget", "ext_incset")
ExtendIncSet(w) == IncSet(w, "ext_incset", "ext_modget", "ext_next")
ExtendModGet(w) == ModGet(w, "ext_modget", "ext_modset")
ExtendModSet(w) == ModSet(w, "ext_modset", "ext_next")
ExtendRelease(w) == Release(w, "ext_release")

(* ------------------------------------------------------------------ *)
(* ReplayBuffer.sample, run by the trainer without the lock           *)
(* ------------------------------------------------------------------ *)

(* mutant of RandInt: the upper end included *)
RandIntInclusive(high, n) == [1..n -> 0..high]

(* np.random.randint(high, size=n): n draws from [0, high) *)
RandInt(high, n) == [1..n -> 0..(high - 1)]

(* np.random.randint(self.size, size=batch_size); ValueError when size is 0 *)
SampleStart ==
    /\ rpc = "idle"
    /\ rsize' = Size(buffer)
    /\ rbatch' = <<>>
    /\ rheld' = lock
    /\ IF Size(buffer) = 0
         THEN /\ rpc' = "error"
              /\ ridx' = <<>>
         ELSE /\ rpc' = "read"
              /\ \E n \in 1..MaxBatch : ridx' \in RandInt(Size(buffer), n)
    /\ UNCHANGED <<capacity, buffer, offset, lock, wpc, witems, wk, wbr, wtmp,
                   wsnap, pushed, nitems, budget, tvars, svars, mvars>>

(* batch.append(self.buffer[i]); IndexError when slot i does not exist *)
SampleRead ==
    /\ rpc = "read"
    /\ Len(rbatch) < Len(ridx)
    /\ LET i == ridx[Len(rbatch) + 1] IN
         IF i < Len(buffer)
           THEN /\ rbatch' = Append(rbatch, buffer[i + 1])
                /\ rpc' = rpc
           ELSE /\ rbatch' = rbatch
                /\ rpc' = "error"
    /\ UNCHANGED <<capacity, buffer, offset, lock, wpc, witems, wk, wbr, wtmp,
                   wsnap, pushed, nitems, rsize, ridx, rheld, budget, tvars, svars, mvars>>

(* return: the batch regrouped field-wise (np.stack, torch.FloatTensor) *)
SampleReturn ==
    /\ rpc = "read"
    /\ Len(rbatch) = Len(ridx)
    /\ rpc' = "done"
    /\ UNCHANGED <<capacity, buffer, offset, lock, wpc, witems, wk, wbr, wtmp,
                   wsnap, pushed, nitems, rsize, ridx, rbatch, rheld, budget, tvars, svars, mvars>>

(* the trainer goes on to its next call of sample (Trainer.update) *)
SampleAgain ==
    /\ rpc \in {"done", "error"}
    /\ rpc' = "idle"
    /\ rsize' = 0
    /\ ridx' = <<>>
    /\ rbatch' = <<>>
    /\ rheld' = 0
    /\ UNCHANGED <<capacity, buffer, offset, lock, wpc, witems, wk, wbr, wtmp,
                   wsnap, pushed, nitems, budget, tvars, svars, mvars>>

(* ------------------------------------------------------------------ *)
(* Specification of the ReplayBuffer                                   *)
(* ------------------------------------------------------------------ *)

(* ReplayBuffer.__init__ *)
InitFixed(b) ==
    /\ budget = b
    /\ capacity \in {Capacity(c) : c \in 0..MaxCap}
    /\ buffer = <<>>
    /\ offset = 0
    /\ lock = 0
    /\ wpc = [w \in Writers |-> "idle"]
    /\ witems = [w \in Writers |-> <<>>]
    /\ wk = [w \in Writers |-> 0]
    /\ wbr = [w \in Writers |-> FALSE]
    /\ wtmp = [w \in Writers |-> 0]
    /\ wsnap = [w \in Writers |-> NoSnap]
    /\ pushed = <<>>
    /\ nitems = 0
    /\ rpc = "idle"
    /\ rsize = 0
    /\ ridx = <<>>
    /\ rbatch = <<>>
    /\ rheld = 0

NextWriters ==
    \/ \E w \in Writers : PushCall(w)
    \/ \E w \in Writers : PushAcquire(w)
    \/ \E w \in Writers : PushTest(w)
    \/ \E w \in Writers : PushWrite(w)
    \/ \E w \in Writers : PushIncGet(w)
    \/ \E w \in Writers : PushIncSet(w)
    \/ \E w \in Writers : PushModGet(w)
    \/ \E w \in Writers : PushModSet(w)
    \/ \E w \in Writers : PushRelease(w)
    \/ \E w \in Writers : ExtendCall(w)
    \/ \E w \in Writers : ExtendAcquire(w)
    \/ \E w \in Writers : ExtendLoop(w)
    \/ \E w \in Writers : ExtendTest(w)
    \/ \E w \in Writers : ExtendWrite(w)
    \/ \E w \in Writers : ExtendIncGet(w)
    \/ \E w \in Writers : ExtendIncSet(w)
    \/ \E w \in Writers : ExtendModGet(w)
    \/ \E w \in Writers : ExtendModSet(w)
    \/ \E w \in Writers : ExtendNext(w)
    \/ \E w \in Writers : ExtendRelease(w)

NextSample ==
    \/ NextWriters
    \/ SampleStart
    \/ SampleRead
    \/ SampleReturn
    \/ SampleAgain

(* writers alone *)
(* ------------------------------------------------------------------ *)
(* TrajectoryReplayBuffer                                              *)
(* ------------------------------------------------------------------ *)

RECURSIVE Sum(_)
Sum(seq) == IF seq = <<>> THEN 0 ELSE Head(seq) + Sum(Tail(seq))

(* TrajectoryReplayBuffer.size: sum(self.lengths) *)
TSize(lengths) == Sum(lengths)

(* a <= capacity, with capacity possibly np.inf *)
AtMost(a, cap) == cap = Inf \/ a <= cap

(* tuple(args): the trajectory of the n-th call, its arrays `len` steps long *)
Trajectory(n, len) == [id |-> n, len |-> len]

(* mutant of TPushTo: the write cursor kept inside the slots when appending *)
TPushWrapped(st, traj, cap) ==
    LET length == traj.len IN
    IF AtMost(TSize(st.lengths) + length, cap)
      THEN [buffer |-> Append(st.buffer, traj),
            lengths |-> Append(st.lengths, length),
            offset |-> (st.offset + 1) % (Len(st.buffer) + 1),
            last |-> "append"]
      ELSE IF st.offset < Len(st.buffer) /\ st.offset < Len(st.lengths)
        THEN [buffer |-> SetSlot(st.buffer, st.offset, traj),
              lengths |-> SetSlot(st.lengths, st.offset, length),
              offset |-> (st.offset + 1) % Len(st.buffer),
              last |-> "overwrite"]
        ELSE [st EXCEPT !.last = "IndexError"]

(* TrajectoryReplayBuffer.push, the block run under the lock: the fields  *)
(* after it, and how it ended.  self.buffer[self.offset] = ... raises     *)
(* IndexError when offset is not the index of a slot, before anything is  *)
(* changed; the with statement then releases the lock.                    *)
TPushTo(st, traj, cap) ==
    LET length == traj.len IN
    IF AtMost(TSize(st.lengths) + length, cap)
      THEN [buffer |-> Append(st.buffer, traj),
            lengths |-> Append(st.lengths, length),
            offset |-> st.offset + 1,
            last |-> "append"]
      ELSE IF st.offset >= Len(st.buffer)
        THEN [st EXCEPT !.last = "IndexError"]
        ELSE IF st.offset >= Len(st.lengths)
          THEN [st EXCEPT !.buffer = SetSlot(st.buffer, st.offset, traj),
                          !.last = "IndexError"]
          ELSE [buffer |-> SetSlot(st.buffer, st.offset, traj),
                lengths |-> SetSlot(st.lengths, st.offset, length),
                offset |-> (st.offset + 1) % Len(st.buffer),
                last |-> "overwrite"]

(* one call of push by a sampler; the lock makes the block one step for *)
(* the other writers                                                     *)
TPush ==
    /\ t_mid = <<>>
    /\ Len(t_hist) < MaxTPushes
    /\ \E length \in 1..MaxTLen :
          LET st == [buffer |-> t_buffer, lengths |-> t_lengths,
                     offset |-> t_offset, last |-> t_last]
              new == TPushTo(st, Trajectory(Len(t_hist) + 1, length), t_capacity)
          IN /\ t_buffer' = new.buffer
             /\ t_lengths' = new.lengths
             /\ t_offset' = new.offset
             /\ t_last' = new.last
             /\ t_hist' = Append(t_hist, length)
    /\ UNCHANGED <<t_capacity, t_mid, fvars, svars, mvars>>

(* push as the trainer's lock-free sample sees it, in two steps.  The first *)
(* runs the test and the write of self.buffer (line 76 or 80) ...          *)
TPushWrite ==
    /\ t_mid = <<>>
    /\ Len(t_hist) < MaxCPushes
    /\ \E length \in 1..MaxCLen :
          LET st == [buffer |-> t_buffer, lengths |-> t_lengths,
                     offset |-> t_offset, last |-> t_last]
              new == TPushTo(st, Trajectory(Len(t_hist) + 1, length), t_capacity)
          IN /\ t_buffer' = new.buffer
             /\ t_mid' = <<new>>
             /\ t_hist' = Append(t_hist, length)
    /\ UNCHANGED <<t_capacity, t_lengths, t_offset, t_last, fvars, svars, mvars>>

(* ... the second the writes of self.lengths and self.offset (lines 77-78 *)
(* or 81-82), or the IndexError leaving the with block                    *)
TPushDone ==
    /\ t_mid # <<>>
    /\ t_lengths' = t_mid[1].lengths
    /\ t_offset' = t_mid[1].offset
    /\ t_last' = t_mid[1].last
    /\ t_mid' = <<>>
    /\ UNCHANGED <<t_capacity, t_buffer, t_hist, fvars, svars, mvars>>

(* TrajectoryReplayBuffer.__init__, as written for a capacity argument *)
InitTraj ==
    /\ t_capacity \in {Capacity(c) : c \in 0..MaxTCap}
    /\ t_buffer = <<>>
    /\ t_lengths = <<>>
    /\ t_offset = 0
    /\ t_hist = <<>>
    /\ t_last = "none"
    /\ t_mid = <<>>

(* ------------------------------------------------------------------ *)
(* TrajectoryReplayBuffer.sample                                       *)
(* ------------------------------------------------------------------ *)

(* np.random.choice(len(weights), p=weights): the indices of weight > 0 *)
Choice(weights) == {i \in 0..(Len(weights) - 1) : weights[i + 1] > 0}

(* the arrays of a stored trajectory that sample slices *)
Fields == {"observation", "action", "reward", "next_observation", "done"}

(* one array of a trajectory: step t of field f of the n-th trajectory pushed *)
Field(traj, f) == [t \in 1..traj.len |-> <<f, traj.id, t - 1>>]

(* seq[a:b] of Python for 0 <= a <= b: the end is clipped to the length *)
Slice(seq, a, b) ==
    LET stop == IF b < Len(seq) THEN b ELSE Len(seq)
    IN [k \in 1..(IF stop > a THEN stop - a ELSE 0) |-> seq[a + k]]

(* mutant of Starts: the upper end one too far *)
StartsPastEnd(L, step_size) == 0..(L - step_size + 1)

(* random.randint(0, len(observation) - step_size): both ends included *)
Starts(L, step_size) == 0..(L - step_size)

(* what lines 95-100 append to batch and hiddens for one accepted draw;  *)
(* hidden[offset] raises IndexError past the last entry                  *)
Window(traj, start, step_size) ==
    [fields |-> [f \in Fields |-> Slice(Field(traj, f), start, start + step_size)],
     hidden |-> IF start < traj.len
                  THEN Field(traj, "hidden")[start + 1]
                  ELSE <<"IndexError">>]

(* lengths = np.asanyarray(list(self.lengths)); weights = lengths / lengths.sum() *)
TSampleStart ==
    /\ s_pc = "idle"
    /\ \E b \in 1..MaxSBatch, st \in 1..MaxStep :
          /\ s_batch' = b
          /\ s_step' = st
    /\ s_weights' = t_lengths
    /\ s_out' = <<>>
    /\ s_win' = <<>>
    /\ s_pc' = "draw"
    /\ UNCHANGED <<fvars, tvars, mvars>>

(* np.random.choice on an empty weights array raises ValueError *)
TSampleRaise ==
    /\ s_pc = "draw"
    /\ Len(s_weights) = 0
    /\ s_pc' = "raised"
    /\ UNCHANGED <<s_batch, s_step, s_weights, s_out, s_win, fvars, tvars, mvars>>

(* mutant of TSampleAccept: the test len(observation) >= step_size left out *)
TSampleAcceptAny ==
    /\ s_pc = "draw"
    /\ \E index \in Choice(s_weights) :
          /\ index < Len(t_buffer)
          /\ s_out' = Append(s_out, <<index, 0>>)
          /\ s_win' = Append(s_win, Window(t_buffer[index + 1], 0, s_step))
          /\ s_pc' = IF Len(s_out) + 1 = s_batch THEN "done" ELSE "draw"
    /\ UNCHANGED <<s_batch, s_step, s_weights, fvars, tvars, mvars>>

(* a draw of a trajectory with len(observation) >= step_size: the window *)
(* is appended and the while loop left; after the last one, the return   *)
TSampleAccept ==
    /\ s_pc = "draw"
    /\ \E index \in Choice(s_weights) :
          /\ index < Len(t_buffer)
          /\ t_buffer[index + 1].len >= s_step
          /\ \E start \in Starts(t_buffer[index + 1].len, s_step) :
                /\ s_out' = Append(s_out, <<index, start>>)
                /\ s_win' = Append(s_win, Window(t_buffer[index + 1], start, s_step))
          /\ s_pc' = IF Len(s_out) + 1 = s_batch THEN "done" ELSE "draw"
    /\ UNCHANGED <<s_batch, s_step, s_weights, fvars, tvars, mvars>>

(* a draw of a trajectory shorter than step_size: while True goes round *)
TSampleRedraw ==
    /\ s_pc = "draw"
    /\ \E index \in Choice(s_weights) :
          /\ index < Len(t_buffer)
          /\ t_buffer[index + 1].len < s_step
    /\ UNCHANGED <<svars, fvars, tvars, mvars>>

(* a buffer at rest, filled by appends: any lengths, offset at the end *)
InitTSample ==
    /\ t_capacity = Inf
    /\ t_lengths \in UNION {[1..n -> 1..MaxTLen] : n \in 0..MaxSlots}
    /\ t_buffer = [i \in 1..Len(t_lengths) |-> Trajectory(i, t_lengths[i])]
    /\ t_offset = Len(t_lengths)
    /\ t_hist = t_lengths
    /\ t_last = IF t_lengths = <<>> THEN "none" ELSE "append"
    /\ t_mid = <<>>

NextTSample ==
    \/ TSampleStart
    \/ TSampleRaise
    \/ TSampleAccept
    \/ TSampleRedraw

(* a buffer being filled by a sampler while the trainer samples it *)
InitTConc ==
    /\ t_capacity \in {Capacity(c) : c \in 0..MaxCCap}
    /\ t_buffer = <<>>
    /\ t_lengths = <<>>
    /\ t_offset = 0
    /\ t_hist = <<>>
    /\ t_last = "none"
    /\ t_mid = <<>>

NextTConc ==
    \/ TPushWrite
    \/ TPushDone
    \/ TSampleStart
    \/ TSampleRaise
    \/ TSampleAccept
    \/ TSampleRedraw

(* ------------------------------------------------------------------ *)
(* sac/main.py: train_loop and train                                   *)
(* ------------------------------------------------------------------ *)

Samplers == 1..NumSamplers

(* config.n_samples_per_update and config.update_sample_ratio *)
SamplesPerUpdate == 2
TargetRatio == 1

(* Trainer and ModelBase (sac/model.py) define no attribute global_step, *)
(* and Trainer.update sets none                                          *)
HasGlobalStep == FALSE

(* lines 27-31 and 50-53: the ratio, target on ZeroDivisionError, and the *)
(* signal it selects                                                      *)
FlowSignal(global_step, total, initial) ==
    LET num == SamplesPerUpdate * global_step
        den == total - initial
        below == IF den = 0 THEN FALSE
                 ELSE IF den > 0 THEN num < TargetRatio * den
                 ELSE num > TargetRatio * den
    IN IF below THEN "pause" ELSE "resume"

(* n_initial_samples = model.collector.n_total_steps *)
LoopEnter ==
    /\ m_pc = "enter"
    /\ m_initial' = m_total
    /\ m_pc' = "wait"
    /\ UNCHANGED <<m_exc, m_outcome, m_nepochs, m_nupdates, m_epoch, m_i, m_total,
                   m_updates, m_signals, m_due, m_alive, m_seen, m_term, m_joined, m_k,
                   fvars, tvars, svars>>

(* while model.collector.n_total_steps == n_initial_samples: time.sleep(0.1) *)
LoopWait ==
    /\ m_pc = "wait"
    /\ m_pc' = IF m_total = m_initial THEN "wait" ELSE "epoch"
    /\ UNCHANGED <<m_exc, m_outcome, m_nepochs, m_nupdates, m_epoch, m_i, m_total,
                   m_initial, m_updates, m_signals, m_due, m_alive, m_seen, m_term,
                   m_joined, m_k, fvars, tvars, svars>>

(* for epoch in range(...): the next epoch, or the normal end of train_loop *)
LoopEpoch ==
    /\ m_pc = "epoch"
    /\ IF m_epoch < m_nepochs
         THEN /\ m_epoch' = m_epoch + 1
              /\ m_i' = 0
              /\ m_pc' = "iter"
              /\ UNCHANGED m_outcome
         ELSE /\ m_outcome' = "normal"
              /\ m_pc' = "finally"
              /\ UNCHANGED <<m_epoch, m_i>>
    /\ UNCHANGED <<m_exc, m_nepochs, m_nupdates, m_total, m_initial, m_updates,
                   m_signals, m_due, m_alive, m_seen, m_term, m_joined, m_k,
                   fvars, tvars, svars>>

(* for i in pbar: one update, the ratio and the signal (lines 24-53); after *)
(* the last i, the end of the epoch (lines 55-68)                           *)
LoopIter ==
    /\ m_pc = "iter"
    /\ IF m_i < m_nupdates
         THEN /\ m_updates' = m_updates + 1
              /\ m_due' = Append(m_due, FlowSignal(m_updates + 1, m_total, m_initial))
              /\ IF HasGlobalStep
                   THEN /\ m_signals' = Append(m_signals,
                                           FlowSignal(m_updates + 1, m_total, m_initial))
                        /\ m_i' = m_i + 1
                        /\ UNCHANGED <<m_pc, m_exc, m_outcome>>
                   ELSE \* line 28: AttributeError, not caught by
                        \* except ZeroDivisionError
                        /\ m_exc' = "AttributeError"
                        /\ m_outcome' = "AttributeError"
                        /\ m_pc' = "except"
                        /\ UNCHANGED <<m_signals, m_i>>
         ELSE /\ m_pc' = "epoch"
              /\ UNCHANGED <<m_updates, m_signals, m_due, m_i, m_exc, m_outcome>>
    /\ UNCHANGED <<m_nepochs, m_nupdates, m_epoch, m_total, m_initial,
                   m_alive, m_seen, m_term, m_joined, m_k, fvars, tvars, svars>>

(* the user's interrupt, delivered while train_loop runs *)
Interrupt ==
    /\ m_pc \in {"enter", "wait", "epoch", "iter"}
    /\ m_exc' = "KeyboardInterrupt"
    /\ m_outcome' = "KeyboardInterrupt"
    /\ m_pc' = "except"
    /\ UNCHANGED <<m_nepochs, m_nupdates, m_epoch, m_i, m_total, m_initial,
                   m_updates, m_signals, m_due, m_alive, m_seen, m_term, m_joined, m_k,
                   fvars, tvars, svars>>

(* mutant of TrainExcept: every exception swallowed *)
TrainExceptAll ==
    /\ m_pc = "except"
    /\ m_exc' = "none"
    /\ m_pc' = "finally"
    /\ UNCHANGED <<m_outcome, m_nepochs, m_nupdates, m_epoch, m_i, m_total,
                   m_initial, m_updates, m_signals, m_due, m_alive, m_seen, m_term,
                   m_joined, m_k, fvars, tvars, svars>>

(* except KeyboardInterrupt: pass / except Exception: raise *)
TrainExcept ==
    /\ m_pc = "except"
    /\ m_exc' = IF m_exc = "KeyboardInterrupt" THEN "none" ELSE m_exc
    /\ m_pc' = "finally"
    /\ UNCHANGED <<m_outcome, m_nepochs, m_nupdates, m_epoch, m_i, m_total,
                   m_initial, m_updates, m_signals, m_due, m_alive, m_seen, m_term,
                   m_joined, m_k, fvars, tvars, svars>>

(* finally: for sampler in samplers: if sampler.is_alive(): *)
TeardownCheck ==
    /\ m_pc = "finally"
    /\ m_k < NumSamplers
    /\ m_seen' = [m_seen EXCEPT ![m_k + 1] = m_alive[m_k + 1]]
    /\ m_pc' = IF m_alive[m_k + 1] THEN "terminate" ELSE "join"
    /\ UNCHANGED <<m_exc, m_outcome, m_nepochs, m_nupdates, m_epoch, m_i, m_total,
                   m_initial, m_updates, m_signals, m_due, m_alive, m_term, m_joined, m_k,
                   fvars, tvars, svars>>

(* sampler.terminate() *)
TeardownTerminate ==
    /\ m_pc = "terminate"
    /\ m_term' = [m_term EXCEPT ![m_k + 1] = TRUE]
    /\ m_pc' = "join"
    /\ UNCHANGED <<m_exc, m_outcome, m_nepochs, m_nupdates, m_epoch, m_i, m_total,
                   m_initial, m_updates, m_signals, m_due, m_alive, m_seen, m_joined, m_k,
                   fvars, tvars, svars>>

(* sampler.join(): returns once the process has ended *)
TeardownJoin ==
    /\ m_pc = "join"
    /\ ~m_alive[m_k + 1]
    /\ m_joined' = [m_joined EXCEPT ![m_k + 1] = TRUE]
    /\ m_k' = m_k + 1
    /\ m_pc' = "finally"
    /\ UNCHANGED <<m_exc, m_outcome, m_nepochs, m_nupdates, m_epoch, m_i, m_total,
                   m_initial, m_updates, m_signals, m_due, m_alive, m_seen, m_term,
                   fvars, tvars, svars>>

(* the end of the finally block: train returns, or the exception goes on *)
TrainEnd ==
    /\ m_pc = "finally"
    /\ m_k = NumSamplers
    /\ m_pc' = IF m_exc = "none" THEN "returned" ELSE "raised"
    /\ UNCHANGED <<m_exc, m_outcome, m_nepochs, m_nupdates, m_epoch, m_i, m_total,
                   m_initial, m_updates, m_signals, m_due, m_alive, m_seen, m_term,
                   m_joined, m_k, fvars, tvars, svars>>

(* the pool after collector.pause(): the last signal sent was a pause *)
Paused == m_signals # <<>> /\ m_signals[Len(m_signals)] = "pause"

(* a sampler process that is not paused adds one step to n_total_steps *)
SamplerStep(s) ==
    /\ m_alive[s]
    /\ ~Paused
    /\ m_total < MaxSteps
    /\ m_total' = m_total + 1
    /\ UNCHANGED <<m_pc, m_exc, m_outcome, m_nepochs, m_nupdates, m_epoch, m_i,
                   m_initial, m_updates, m_signals, m_due, m_alive, m_seen, m_term,
                   m_joined, m_k, fvars, tvars, svars>>

(* a sampler process ends: killed by terminate(), or on its own *)
SamplerExit(s) ==
    /\ m_alive[s]
    /\ m_alive' = [m_alive EXCEPT ![s] = FALSE]
    /\ UNCHANGED <<m_pc, m_exc, m_outcome, m_nepochs, m_nupdates, m_epoch, m_i,
                   m_total, m_initial, m_updates, m_signals, m_due, m_seen, m_term,
                   m_joined, m_k, fvars, tvars, svars>>

(* train, after samplers = model.async_sample(...) *)
InitTrain ==
    /\ m_pc = "enter"
    /\ m_exc = "none"
    /\ m_outcome = "running"
    /\ m_nepochs \in 0..MaxEpochs
    /\ m_nupdates \in 0..MaxUpdates
    /\ m_epoch = 0
    /\ m_i = 0
    /\ m_total \in 0..1
    /\ m_initial = 0
    /\ m_updates = 0
    /\ m_signals = <<>>
    /\ m_due = <<>>
    /\ m_alive = [s \in Samplers |-> TRUE]
    /\ m_seen = [s \in Samplers |-> FALSE]
    /\ m_term = [s \in Samplers |-> FALSE]
    /\ m_joined = [s \in Samplers |-> FALSE]
    /\ m_k = 0

TrainIdle ==
    /\ m_pc = "off"
    /\ m_exc = "none"
    /\ m_outcome = "running"
    /\ m_nepochs = 0
    /\ m_nupdates = 0
    /\ m_epoch = 0
    /\ m_i = 0
    /\ m_total = 0
    /\ m_initial = 0
    /\ m_updates = 0
    /\ m_signals = <<>>
    /\ m_due = <<>>
    /\ m_alive = [s \in Samplers |-> FALSE]
    /\ m_seen = [s \in Samplers |-> FALSE]
    /\ m_term = [s \in Samplers |-> FALSE]
    /\ m_joined = [s \in Samplers |-> FALSE]
    /\ m_k = 0

NextTrain ==
    \/ LoopEnter
    \/ LoopWait
    \/ LoopEpoch
    \/ LoopIter
    \/ Interrupt
    \/ TrainExcept
    \/ TeardownCheck
    \/ TeardownTerminate
    \/ TeardownJoin
    \/ TrainEnd
    \/ \E s \in Samplers : SamplerStep(s)
    \/ \E s \in Samplers : SamplerExit(s)

(* the parts of the state a specification leaves out stay as built *)
TrajIdle ==
    /\ t_capacity = Inf
    /\ t_buffer = <<>>
    /\ t_lengths = <<>>
    /\ t_offset = 0
    /\ t_hist = <<>>
    /\ t_last = "none"
    /\ t_mid = <<>>

TSampleIdle ==
    /\ s_pc = "idle"
    /\ s_batch = 0
    /\ s_step = 0
    /\ s_weights = <<>>
    /\ s_out = <<>>
    /\ s_win = <<>>

FixedIdle == InitFixed(0) /\ capacity = Inf

Init == InitFixed(MaxItems) /\ TrajIdle /\ TSampleIdle /\ TrainIdle

Spec == Init /\ [][NextWriters]_vars

(* writers and the trainer's sample *)
InitSample == InitFixed(MaxItemsSample) /\ TrajIdle /\ TSampleIdle /\ TrainIdle

SpecSample == InitSample /\ [][NextSample]_vars

(* TrajectoryReplayBuffer: pushes *)
InitTrajSpec == InitTraj /\ FixedIdle /\ TSampleIdle /\ TrainIdle

SpecTraj == InitTrajSpec /\ [][TPush]_vars

(* TrajectoryReplayBuffer.sample on a buffer no writer touches; random *)
(* draws are fair: a draw that can be accepted is not put off forever  *)
InitTSampleSpec == InitTSample /\ FixedIdle /\ TSampleIdle /\ TrainIdle

SpecTSample == InitTSampleSpec /\ [][NextTSample]_vars /\ WF_vars(TSampleAccept)

(* TrajectoryReplayBuffer.sample against a push in progress *)
InitTConcSpec == InitTConc /\ FixedIdle /\ TSampleIdle /\ TrainIdle

SpecTConc == InitTConcSpec /\ [][NextTConc]_vars

(* train with its samplers *)
InitTrainSpec == InitTrain /\ FixedIdle /\ TrajIdle /\ TSampleIdle

SpecTrain == InitTrainSpec /\ [][NextTrain]_vars

(* ------------------------------------------------------------------ *)
(* push as one uninterrupted run of lines 23-29, and a run of pushes  *)
(* ------------------------------------------------------------------ *)

PushOne(st, item, cap) ==
    LET buf == st[1]
        off == st[2]
        buf1 == IF Below(Size(buf), cap) THEN Append(buf, item)
                                         ELSE SetSlot(buf, off, item)
        off1 == off + 1
    IN <<buf1, IF cap # Inf THEN off1 % cap ELSE off1>>

RECURSIVE PushSeq(_, _, _)
PushSeq(st, items, cap) ==
    IF items = <<>> THEN st
    ELSE PushSeq(PushOne(st, Head(items), cap), Tail(items), cap)

(* no writer is inside a with self.lock block *)
Quiescent == \A w \in Writers : wpc[w] \notin Critical

Min(a, b) == IF a < b THEN a ELSE b

(* the number (1-based, in push order) of the last of n pushes that went to slot i *)
LastInto(i, n, cap) == CHOOSE j \in 1..n :
    /\ (j - 1) % cap = i
    /\ \A k \in (j + 1)..n : (k - 1) % cap # i

(* ------------------------------------------------------------------ *)
(* Claims about ReplayBuffer (Spec, SpecSample)                        *)
(* ------------------------------------------------------------------ *)

(* C1: with a finite capacity, whatever the interleaving of the writers' push *)
(* and extend calls, the number of occupied slots never exceeds the capacity. *)
C1_SizeAtMostCapacity ==
    capacity # Inf => Size(buffer) <= capacity

(* C1 witness: a full buffer that has been overwritten, a second writer waiting *)
C1_Witness ==
    /\ capacity # Inf
    /\ Size(buffer) = capacity
    /\ Len(pushed) > capacity
    /\ \E w \in Writers : wpc[w] \in {"push_lock", "ext_lock"} /\ lock # 0

(* C2: once N items have been pushed into an initially empty buffer of finite *)
(* capacity C, size = min(N, C), offset = N mod C and slot i holds the last   *)
(* pushed item whose number is congruent to i modulo C.                       *)
C2_CircularOverwrite ==
    (Quiescent /\ capacity # Inf) =>
        LET n == Len(pushed) IN
        /\ Size(buffer) = Min(n, capacity)
        /\ offset = n % capacity
        /\ \A i \in 0..(Size(buffer) - 1) :
              buffer[i + 1] = pushed[LastInto(i, n, capacity)]

(* C2 witness: capacity 3 and four pushes A, B, C, D leave [D, B, C], offset 1 *)
C2_Witness ==
    /\ Quiescent
    /\ capacity = 3
    /\ Len(pushed) = 4
    /\ buffer = <<pushed[4], pushed[2], pushed[3]>>
    /\ offset = 1

(* C5: only the holder of the lock is inside push or extend; while a push runs *)
(* the buffer and the offset change by its own steps alone; and whenever no    *)
(* writer is inside, slots and offset are those of the pushes made one at a    *)
(* time in the order the lock was taken, no item and no increment lost.        *)
C5_WriterMutualExclusion ==
    /\ \A w \in Writers : wpc[w] \in Critical => lock = w
    /\ \A w \in Writers :
          LET after == PushOne(wsnap[w], witems[w][1], capacity) IN
          /\ wpc[w] \in {"push_test", "push_write"} => <<buffer, offset>> = wsnap[w]
          /\ wpc[w] \in {"push_incget", "push_incset"} =>
                /\ buffer = after[1]
                /\ offset = wsnap[w][2]
          /\ wpc[w] \in {"push_modget", "push_modset"} =>
                /\ buffer = after[1]
                /\ offset = wsnap[w][2] + 1
          /\ wpc[w] = "push_release" => <<buffer, offset>> = after
    /\ Quiescent => <<buffer, offset>> = PushSeq(NoSnap, pushed, capacity)
    /\ (\A w \in Writers : wpc[w] = "idle") =>
          /\ Len(pushed) = nitems
          /\ \A j, k \in 1..Len(pushed) : pushed[j] = pushed[k] => j = k

(* C5 witness: a push has run to its end under the lock while another writer waits *)
C5_Witness ==
    \E w, v \in Writers :
        /\ wpc[w] = "push_release"
        /\ wpc[v] \in {"push_lock", "ext_lock"}
        /\ Len(pushed) >= 2

(* C6: extend holds the lock from its first item to its last, and after k items *)
(* the slots and the offset are those of pushing the first k items in order     *)
(* onto the state found when the lock was taken.                                *)
C6_ExtendIsPushes ==
    \A w \in Writers :
        /\ wpc[w] \in ExtendCritical => lock = w
        /\ wpc[w] \in {"ext_loop", "ext_release"} =>
              <<buffer, offset>> =
                  PushSeq(wsnap[w], SubSeq(witems[w], 1, wk[w]), capacity)
        /\ wpc[w] = "ext_release" => wk[w] = Len(witems[w])

(* C6 witness: a batch of two has been written, wrapping, while a writer waits *)
C6_Witness ==
    \E w, v \in Writers :
        /\ wpc[w] = "ext_release"
        /\ Len(witems[w]) = 2
        /\ capacity # Inf
        /\ Len(pushed) > capacity
        /\ wpc[v] \in {"push_lock", "ext_lock"}

(* C7: sample takes no lock, so its next step is always possible, also while a *)
(* writer holds the lock; every index drawn lies in [0, S) for the size S it   *)
(* read; every slot read exists (no IndexError); every item read is one whole  *)
(* pushed item.                                                                *)
C7_SampleWithoutLock ==
    /\ rpc = "read" => ENABLED (SampleRead \/ SampleReturn)
    /\ \A k \in 1..Len(ridx) : ridx[k] \in 0..(rsize - 1)
    /\ rpc = "error" => rsize = 0
    /\ \A k \in 1..Len(rbatch) :
          /\ rbatch[k][1] = rbatch[k][2]
          /\ \E j \in 1..Len(pushed) : rbatch[k] = pushed[j]

(* C7 witness: a batch of two was read while one writer held the lock throughout *)
C7_Witness ==
    /\ rpc = "done"
    /\ rheld # 0
    /\ Len(rbatch) = 2

(* ------------------------------------------------------------------ *)
(* Claims about TrajectoryReplayBuffer (SpecTraj, SpecTSample)         *)
(* ------------------------------------------------------------------ *)

(* C3: with capacity 10, after pushes of trajectories of length 4, 4 and 5 *)
(* the third has replaced the first: lengths [5, 4], size 9.               *)
C3_ThirdPushOverwritesFirst ==
    (t_capacity = 10 /\ t_hist = <<4, 4, 5>>) =>
        /\ t_lengths = <<5, 4>>
        /\ TSize(t_lengths) = 9
        /\ t_buffer = <<Trajectory(3, 5), Trajectory(2, 4)>>

(* C4: with a finite capacity, after any pushes of trajectories of any     *)
(* positive lengths, the sum of the stored lengths is at most the capacity. *)
C4_TrajSizeAtMostCapacity ==
    t_capacity # Inf => TSize(t_lengths) <= t_capacity

(* C4 witness: trajectories are stored, and a push of one longer than the *)
(* capacity has been made                                                 *)
C4_Witness ==
    /\ t_capacity # Inf
    /\ Len(t_lengths) >= 2
    /\ t_hist[Len(t_hist)] > t_capacity
    /\ t_last = "IndexError"

(* every stored trajectory is shorter than step_size / one is long enough *)
AllShort == \A i \in 1..Len(t_buffer) : t_buffer[i].len < s_step
SomeLong == \E i \in 1..Len(t_buffer) : t_buffer[i].len >= s_step

(* C10 as stated: whenever every stored trajectory is shorter than step_size *)
(* the call of sample never ends.                                            *)
C10_AllShortNeverEnds ==
    (s_pc # "idle" /\ AllShort) => s_pc = "draw"

(* C10, amended: on a buffer at rest that holds at least one trajectory, the  *)
(* call never ends when every trajectory is shorter than step_size, and ends  *)
(* under fair draws, after exactly batch_size accepted draws, when one is     *)
(* long enough; only an empty buffer makes it raise.                          *)
C10_SampleTermination ==
    /\ [](s_pc # "idle" /\ Len(t_buffer) > 0 /\ AllShort => s_pc = "draw")
    /\ [](s_pc = "raised" => Len(t_buffer) = 0)
    /\ [](s_pc = "done" => Len(s_out) = s_batch)
    /\ [](s_pc = "draw" => Len(s_out) < s_batch)
    /\ ((s_pc = "draw" /\ SomeLong) ~> s_pc = "done")

(* C10 witness: a batch of two ended although a stored trajectory is too short *)
C10_Witness ==
    /\ s_pc = "done"
    /\ Len(s_out) = 2
    /\ \E i \in 1..Len(t_buffer) : t_buffer[i].len < s_step

(* ------------------------------------------------------------------ *)
(* Claims about train and train_loop (SpecTrain)                       *)
(* ------------------------------------------------------------------ *)

(* C8: after every update step train_loop has sent exactly one signal, *)
(* pause or resume, to the sampler pool.                               *)
C8_OneSignalPerUpdate ==
    /\ Len(m_signals) = m_updates
    /\ \A k \in 1..Len(m_signals) : m_signals[k] \in {"pause", "resume"}

(* C9: when train returns or raises, every sampler has been joined and is *)
(* not alive, and was sent terminate before its join if it was found      *)
(* alive; train returns after a normal end or a KeyboardInterrupt of      *)
(* train_loop and raises, after the teardown, the exception of any other  *)
(* end.                                                                   *)
C9_Teardown ==
    /\ m_pc \in {"returned", "raised"} =>
          \A s \in Samplers : m_joined[s] /\ ~m_alive[s]
    /\ \A s \in Samplers : (m_joined[s] /\ m_seen[s]) => m_term[s]
    /\ m_pc = "returned" => m_outcome \in {"normal", "KeyboardInterrupt"}
    /\ m_pc = "raised" => (m_outcome = "AttributeError" /\ m_exc = m_outcome)

(* C9 witness: train raised after terminating one sampler and joining another *)
(* that had already ended                                                     *)
C9_Witness ==
    /\ m_pc = "raised"
    /\ \E s \in Samplers : m_term[s]
    /\ \E s \in Samplers : ~m_seen[s]

C12_OverwriteCursorValid ==
    /\ Len(t_buffer) = Len(t_lengths)
    /\ (Len(t_buffer) > 0 /\ t_last \notin {"none", "append"}) =>
          /\ t_last = "overwrite"
          /\ t_offset < Len(t_buffer)
          /\ LET slot == (t_offset + Len(t_buffer) - 1) % Len(t_buffer)
                 length == t_hist[Len(t_hist)]
             IN /\ t_buffer[slot + 1] = Trajectory(Len(t_hist), length)
                /\ t_lengths[slot + 1] = length

====
